---------------------------- MODULE Spec2Model ----------------------------
(***************************************************************************)
(* A model of numerical_method.py: the quadrature rules of                 *)
(* NumericalIntegrate and the three root finders of NumericalRootFinding.  *)
(*                                                                         *)
(* Numbers are exact rationals <<numerator, denominator>> in lowest terms  *)
(* with a positive denominator: the arithmetic of the code is modelled     *)
(* over the reals, the rounding of binary floating point is not modelled.  *)
(***************************************************************************)
EXTENDS Integers, Sequences, FiniteSets, TLC

\* ------------------------------------------------------------------------
\* Bounds of the model
\* ------------------------------------------------------------------------

\* The largest iteration cap max_it regula_falsi and bisection are given.
MaxIt == 3

\* The largest iteration cap max_it secant is given (its iterates' numerators
\* and denominators square at every pass).
MaxSecantIt == 2

\* The largest number of sample points of a series given to a quadrature rule.
MaxLen == 6

\* The largest number of points of an array given to the input check.
MaxCheckLen == 3

\* ------------------------------------------------------------------------
\* Exact arithmetic
\* ------------------------------------------------------------------------

IAbs(n) == IF n < 0 THEN -n ELSE n

RECURSIVE GCD(_, _)
GCD(m, n) == IF n = 0 THEN m ELSE GCD(n, m % n)

\* n/d in lowest terms, the sign carried by the numerator (d # 0).
Norm(n, d) ==
    LET g == GCD(IAbs(n), IAbs(d))
        s == IF d < 0 THEN -1 ELSE 1
    IN  <<(s * n) \div g, (s * d) \div g>>

R(n) == <<n, 1>>

Zero == R(0)

RAdd(p, q) == Norm(p[1] * q[2] + q[1] * p[2], p[2] * q[2])

RSub(p, q) == Norm(p[1] * q[2] - q[1] * p[2], p[2] * q[2])

RMul(p, q) == Norm(p[1] * q[1], p[2] * q[2])

\* p / q for q # 0.
RDiv(p, q) == Norm(p[1] * q[2], p[2] * q[1])

RLt(p, q) == p[1] * q[2] < q[1] * p[2]

RLe(p, q) == p[1] * q[2] <= q[1] * p[2]

\* abs(p)
RAbs(p) == <<IAbs(p[1]), p[2]>>

\* A local name that has not been assigned: no rational has denominator 0.
Unbound == <<0, 0>>

\* ------------------------------------------------------------------------
\* Root finding: state of one call solver.method(func, a, b, max_it, tolerance)
\* ------------------------------------------------------------------------

VARIABLES
    method,     \* which solver is called
    func,       \* the callable: coefficients <<c0, c1, c2>> of c0 + c1*x + c2*x^2
    a0, b0,     \* the bounds as passed by the caller
    a, b,       \* the parameters a and b (bisection assigns to them)
    max_it,     \* the iteration cap
    tolerance,  \* the residual tolerance
    pc,         \* "start": not yet entered, "loop": in the for loop, "done"
    i,          \* number of loop passes started
    ai, bi, fai, fbi, xi,   \* locals of regula_falsi
    m,          \* local of bisection
    xprev, x, fx,           \* locals of secant
    evals,      \* number of calls of func made so far
    warned,     \* the 'Reach maximum itteration' line has been printed
    outcome,    \* "running", "returned", or the exception that ended the call
    result      \* the value returned (Unbound when nothing was returned)

solveVars == <<method, func, a0, b0, a, b, max_it, tolerance, pc, i,
               ai, bi, fai, fbi, xi, m, xprev, x, fx,
               evals, warned, outcome, result>>

\* ------------------------------------------------------------------------
\* Quadrature: arrays and results
\* ------------------------------------------------------------------------

\* An array is its number of dimensions and its elements in flattened order.
\* A two-dimensional array here is a column, of shape (k, 1): len() is k,
\* np.delete without an axis flattens it, and a slice takes rows, so that
\* every rule reads it as it reads the one-dimensional array of its elements
\* (the Simpson rules then return their value as an array of one element).

\* The value a rule returns, or the exception it raises.  The three
\* ValueErrors of the class are told apart by their message.
Ok(v) == [kind |-> "ok", val |-> v, val2 |-> Unbound]

OkPair(u, v) == [kind |-> "ok", val |-> u, val2 |-> v]

Err(e) == [kind |-> e, val |-> Unbound, val2 |-> Unbound]

RECURSIVE RSum(_)
\* ndarray.sum()
RSum(s) == IF s = <<>> THEN Zero ELSE RAdd(Head(s), RSum(Tail(s)))

\* np.delete(s, 0)
DeleteFirst(s) == Tail(s)

\* np.delete(s, -1)
DeleteLast(s) == SubSeq(s, 1, Len(s) - 1)

\* A slice bound k of a sequence of length n: negative counts from the end,
\* and the bound is clipped to 0..n.
SliceBound(k, n) ==
    IF k < 0 THEN (IF k + n < 0 THEN 0 ELSE k + n)
    ELSE IF k > n THEN n ELSE k

\* s[start:stop:step] (0-based, step > 0)
Slice(s, start, stop, step) ==
    LET lo == SliceBound(start, Len(s))
        hi == SliceBound(stop, Len(s))
        cnt == IF hi <= lo THEN 0 ELSE (hi - lo + step - 1) \div step
    IN  [k \in 1..cnt |-> s[lo + (k - 1) * step + 1]]

\* the elements of an integer array as numbers
Num(s) == [k \in 1..Len(s) |-> R(s[k])]

Scale(c, s) == [k \in 1..Len(s) |-> RMul(c, s[k])]

\* __input_check: "ok", or the ValueError raised
input_check(xd, yd, xs, ys) ==
    IF xd # 1 /\ yd # 1 THEN "ShapeError"
    ELSE IF Len(xs) # Len(ys) THEN "LengthMismatchError"
    ELSE "ok"

\* subinterval = np.delete(x, 0) - np.delete(x, -1)
subinterval(xs) ==
    [k \in 1..(Len(xs) - 1) |-> RSub(DeleteFirst(Num(xs))[k], DeleteLast(Num(xs))[k])]

lriemann(xd, yd, xs, ys) ==
    IF input_check(xd, yd, xs, ys) # "ok" THEN Err(input_check(xd, yd, xs, ys))
    ELSE LET sub == subinterval(xs)
             sub_area == [k \in 1..Len(sub) |-> RMul(sub[k], DeleteLast(Num(ys))[k])]
         IN  Ok(RSum(sub_area))

rriemann(xd, yd, xs, ys) ==
    IF input_check(xd, yd, xs, ys) # "ok" THEN Err(input_check(xd, yd, xs, ys))
    ELSE LET sub == subinterval(xs)
             sub_area == [k \in 1..Len(sub) |-> RMul(sub[k], DeleteFirst(Num(ys))[k])]
         IN  Ok(RSum(sub_area))

\* the areas as they would be without the factor 0.5
trapezoid_areas_no_half(xs, ys) ==
    LET sub == subinterval(xs)
    IN  [k \in 1..Len(sub) |->
            RMul(sub[k], RAdd(DeleteFirst(Num(ys))[k], DeleteLast(Num(ys))[k]))]

\* sub_area = 0.5 * subinterval * (np.delete(y, 0) + np.delete(y, -1))
trapezoid_areas(xs, ys) ==
    LET sub == subinterval(xs)
    IN  [k \in 1..Len(sub) |->
            RMul(RMul(<<1, 2>>, sub[k]),
                 RAdd(DeleteFirst(Num(ys))[k], DeleteLast(Num(ys))[k]))]

trapezoidal(xd, yd, xs, ys) ==
    IF input_check(xd, yd, xs, ys) # "ok" THEN Err(input_check(xd, yd, xs, ys))
    ELSE Ok(RSum(trapezoid_areas(xs, ys)))

\* sub_area[sub_area > 0]
SelectPositive(s) == SelectSeq(s, LAMBDA v : RLt(Zero, v))

\* the selection as it would be with the test of upper_area repeated
SelectNegativeFlipped(s) == SelectSeq(s, LAMBDA v : RLt(Zero, v))

\* sub_area[sub_area < 0]
SelectNegative(s) == SelectSeq(s, LAMBDA v : RLt(v, Zero))

trapezoidal_upper_lower(xd, yd, xs, ys) ==
    IF input_check(xd, yd, xs, ys) # "ok" THEN Err(input_check(xd, yd, xs, ys))
    ELSE LET sub_area == trapezoid_areas(xs, ys)
         IN  OkPair(RSum(SelectPositive(sub_area)), RSum(SelectNegative(sub_area)))

\* the step as it would be when dividing by the number of points
StepWidthByLen(xs) == RDiv(RSub(R(xs[Len(xs)]), R(xs[1])), R(Len(xs)))

\* h = (x[-1] - x[0]) / (len(x) - 1)
StepWidth(xs) == RDiv(RSub(R(xs[Len(xs)]), R(xs[1])), R(Len(xs) - 1))

\* (one point: h is 0 / 0, which numpy evaluates to nan)
simpson13(xd, yd, xs, ys) ==
    IF input_check(xd, yd, xs, ys) # "ok" THEN Err(input_check(xd, yd, xs, ys))
    ELSE IF (Len(xs) - 1) % 2 # 0 THEN Err("PartitionError")
    ELSE IF Len(xs) = 1 THEN Err("nan")
    ELSE LET h == StepWidth(xs)
             y == Num(ys)
             mid_area == RAdd(RSum(Scale(R(2), Slice(y, 2, -1, 2))),
                              RSum(Scale(R(4), Slice(y, 1, -1, 2))))
         IN  Ok(RDiv(RMul(h, RAdd(RAdd(mid_area, y[1]), y[Len(y)])), R(3)))

simpson38(xd, yd, xs, ys) ==
    IF input_check(xd, yd, xs, ys) # "ok" THEN Err(input_check(xd, yd, xs, ys))
    ELSE IF (Len(xs) - 1) % 3 # 0 THEN Err("PartitionError")
    ELSE IF Len(xs) = 1 THEN Err("nan")
    ELSE LET h == StepWidth(xs)
             y == Num(ys)
             mid_area == RAdd(RAdd(RSum(Scale(R(2), Slice(y, 3, -1, 3))),
                                   RSum(Scale(R(3), Slice(y, 1, -1, 3)))),
                              RSum(Scale(R(3), Slice(y, 2, -1, 3))))
         IN  Ok(RDiv(RMul(RMul(h, R(3)), RAdd(RAdd(mid_area, y[1]), y[Len(y)])), R(8)))

\* area = a + b of two calls: an exception of the first, else of the second,
\* propagates
AddResults(p, q) ==
    IF p.kind # "ok" THEN p
    ELSE IF q.kind # "ok" THEN q
    ELSE Ok(RAdd(p.val, q.val))

\* the else-branch as it would be with the head cut one point short
autosimpson_split_short(xd, yd, xs, ys) ==
    AddResults(simpson13(xd, yd, Slice(xs, 0, -4, 1), Slice(ys, 0, -4, 1)),
               simpson38(xd, yd, Slice(xs, -4, Len(xs), 1), Slice(ys, -4, Len(ys), 1)))

\* the else-branch of autosimpson: simpson13(x[:-3], y[:-3]) + simpson38(x[-4:], y[-4:])
autosimpson_split(xd, yd, xs, ys) ==
    AddResults(simpson13(xd, yd, Slice(xs, 0, -3, 1), Slice(ys, 0, -3, 1)),
               simpson38(xd, yd, Slice(xs, -4, Len(xs), 1), Slice(ys, -4, Len(ys), 1)))

autosimpson(xd, yd, xs, ys) ==
    IF input_check(xd, yd, xs, ys) # "ok" THEN Err(input_check(xd, yd, xs, ys))
    ELSE IF (Len(xs) - 1) % 2 = 0 THEN simpson13(xd, yd, xs, ys)
    ELSE IF (Len(xs) - 1) % 3 = 0 THEN simpson38(xd, yd, xs, ys)
    ELSE autosimpson_split(xd, yd, xs, ys)

Rules == {"lriemann", "rriemann", "trapezoidal", "trapezoidal_upper_lower",
          "simpson13", "simpson38", "autosimpson"}

\* ------------------------------------------------------------------------
\* Quadrature: state of one call integrator.rule(x, y)
\* ------------------------------------------------------------------------

VARIABLES
    qxd, qyd,   \* ndim of the arrays x and y
    qx, qy,     \* their elements
    rule,       \* the rule that was called ("none" before the call)
    qout        \* what the call returned or raised

quadVars == <<qxd, qyd, qx, qy, rule, qout>>

vars == <<solveVars, quadVars>>

RECURSIVE Cumulative(_, _)
\* the abscissas 0, d*s[1], d*(s[1] + s[2]), ... of steps s in direction d
Cumulative(s, d) ==
    IF s = <<>> THEN <<0>>
    ELSE LET front == Cumulative(SubSeq(s, 1, Len(s) - 1), d)
         IN  Append(front, front[Len(front)] + d * s[Len(s)])

\* the steps of n points, all of width 1 but the w-th, of width 2 (none
\* when w = 0)
Steps(n, w) == [k \in 1..(n - 1) |-> IF k = w THEN 2 ELSE 1]

YValues == {-1, 0, 2}

IdleQuad ==
    /\ qxd = 1 /\ qyd = 1 /\ qx = <<>> /\ qy = <<>>
    /\ rule = "none" /\ qout = Err("none")

IdleSolve ==
    /\ method = "none" /\ func = <<0, 0, 0>>
    /\ a0 = Zero /\ b0 = Zero /\ a = Zero /\ b = Zero
    /\ max_it = 0 /\ tolerance = Zero
    /\ pc = "done" /\ i = 0
    /\ ai = Unbound /\ bi = Unbound /\ fai = Unbound /\ fbi = Unbound
    /\ xi = Unbound /\ m = Unbound
    /\ xprev = Unbound /\ x = Unbound /\ fx = Unbound
    /\ evals = 0 /\ warned = FALSE
    /\ outcome = "none" /\ result = Unbound

\* Sample Series: x strictly monotonic, ascending or descending, uniformly
\* spaced or not, y of the same length, at least two points.
InitQuad ==
    /\ IdleSolve
    /\ qxd = 1 /\ qyd = 1
    /\ \E n \in 2..MaxLen :
          /\ \E w \in 0..(n - 1), d \in {1, -1} : qx = Cumulative(Steps(n, w), d)
          /\ qy \in [1..n -> YValues]
    /\ rule = "none"
    /\ qout = Err("none")

\* The input check's inputs: arrays of one or two dimensions whose lengths
\* may differ.
InitCheck ==
    /\ IdleSolve
    /\ qxd \in {1, 2} /\ qyd \in {1, 2}
    /\ \E nx \in 2..MaxCheckLen, ny \in 2..MaxCheckLen :
          /\ \E w \in 0..(nx - 1) : qx = Cumulative(Steps(nx, w), 1)
          /\ qy \in [1..ny -> {-1, 2}]
    /\ rule = "none"
    /\ qout = Err("none")

Call(r, out) ==
    /\ rule = "none"
    /\ rule' = r
    /\ qout' = out
    /\ UNCHANGED <<qxd, qyd, qx, qy, solveVars>>

Lriemann == Call("lriemann", lriemann(qxd, qyd, qx, qy))

Rriemann == Call("rriemann", rriemann(qxd, qyd, qx, qy))

Trapezoidal == Call("trapezoidal", trapezoidal(qxd, qyd, qx, qy))

TrapezoidalUpperLower ==
    Call("trapezoidal_upper_lower", trapezoidal_upper_lower(qxd, qyd, qx, qy))

Simpson13 == Call("simpson13", simpson13(qxd, qyd, qx, qy))

Simpson38 == Call("simpson38", simpson38(qxd, qyd, qx, qy))

Autosimpson == Call("autosimpson", autosimpson(qxd, qyd, qx, qy))

NextQuad ==
    \/ Lriemann
    \/ Rriemann
    \/ Trapezoidal
    \/ TrapezoidalUpperLower
    \/ Simpson13
    \/ Simpson38
    \/ Autosimpson

SpecQuad == InitQuad /\ [][NextQuad]_vars

SpecCheck == InitCheck /\ [][NextQuad]_vars


\* ------------------------------------------------------------------------
\* Root finding: the three methods
\* ------------------------------------------------------------------------

Methods == {"regula_falsi", "bisection", "secant"}

\* The callables tried: c0 + c1*x + c2*x^2.
Funcs == {<<c0, c1, c2>> : c0 \in {-2, -1, 0}, c1 \in {-1, 0, 1}, c2 \in {0, 1}}

Bounds == {R(0), R(1), R(2)}

Tolerances == {<<-1, 1>>, <<0, 1>>, <<1, 4>>, <<1, 1>>}

\* func(v)
F(c, v) == RAdd(R(c[1]), RAdd(RMul(R(c[2]), v), RMul(R(c[3]), RMul(v, v))))

InitSolve ==
    /\ IdleQuad
    /\ method \in Methods
    /\ func \in Funcs
    /\ a0 \in Bounds /\ b0 \in Bounds
    /\ a = a0 /\ b = b0
    /\ max_it \in 0..(IF method = "secant" THEN MaxSecantIt ELSE MaxIt)
    /\ tolerance \in Tolerances
    /\ pc = "start"
    /\ i = 0
    /\ ai = Unbound /\ bi = Unbound /\ fai = Unbound /\ fbi = Unbound
    /\ xi = Unbound
    /\ m = Unbound
    /\ xprev = Unbound /\ x = Unbound /\ fx = Unbound
    /\ evals = 0
    /\ warned = FALSE
    /\ outcome = "running"
    /\ result = Unbound

\* return v
Return(v) ==
    /\ pc' = "done"
    /\ outcome' = "returned"
    /\ result' = v

\* raise: the call ends without a value
Raise(e) ==
    /\ pc' = "done"
    /\ outcome' = e
    /\ result' = Unbound

\* 'return v' where v names a local: an unassigned local raises UnboundLocalError
ReturnLocal(v) == IF v = Unbound THEN Raise("UnboundLocalError") ELSE Return(v)

Continue == UNCHANGED <<pc, outcome, result>>

\* the test as it would be with > in place of >=
NoBracketStrict(c, u, v) == RLt(Zero, RMul(F(c, u), F(c, v)))

\* if func(a) * func(b) >= 0: raise ValueError
NoBracket(c, u, v) == RLe(Zero, RMul(F(c, u), F(c, v)))

\* the loop as it would be with one pass too many
InRangeInclusive(k, n) == k <= n

\* for i in range(max_it): another pass is started
InRange(k, n) == k < n

\* the error as it would be without abs
ErrorSigned(v) == v

\* error = abs(fxi), abs(fm), abs(fx)
Error(v) == RAbs(v)

\* if error <= tolerance
ToleranceMet(e, t) == RLe(e, t)

\* func(a) * fm < 0, fm * func(b) < 0
ProductNegative(u, v) == RLt(RMul(u, v), Zero)

\* the test as it would be with < in place of >
ProductPositiveFlipped(u, v) == RLt(RMul(u, v), Zero)

\* fai * fxi > 0, fbi * fxi > 0
ProductPositive(u, v) == RLt(Zero, RMul(u, v))

\* ---- regula_falsi ----

RegulaFalsiCall ==
    /\ pc = "start" /\ method = "regula_falsi"
    /\ IF NoBracket(func, a, b)
       THEN /\ Raise("ValueError")
            /\ evals' = evals + 2
            /\ UNCHANGED <<ai, bi, fai, fbi>>
       ELSE /\ ai' = a /\ bi' = b
            /\ fai' = F(func, a) /\ fbi' = F(func, b)
            /\ evals' = evals + 4
            /\ pc' = "loop"
            /\ UNCHANGED <<outcome, result>>
    /\ UNCHANGED <<quadVars, method, func, a0, b0, a, b, max_it, tolerance, i, xi, m,
                   xprev, x, fx, warned>>

RegulaFalsiIter ==
    /\ pc = "loop" /\ method = "regula_falsi" /\ InRange(i, max_it)
    /\ LET nxi == RDiv(RSub(RMul(ai, fbi), RMul(bi, fai)), RSub(fbi, fai))
           fxi == F(func, nxi)
           error == Error(fxi)
       IN  /\ xi' = nxi
           /\ evals' = evals + 1
           /\ i' = i + 1
           /\ IF ProductPositive(fai, fxi)
              THEN /\ ai' = nxi /\ fai' = fxi
                   /\ UNCHANGED <<bi, fbi>>
                   /\ IF ToleranceMet(error, tolerance) THEN Return(nxi) ELSE Continue
              ELSE IF ProductPositive(fbi, fxi)
              THEN /\ bi' = nxi /\ fbi' = fxi
                   /\ UNCHANGED <<ai, fai>>
                   /\ IF ToleranceMet(error, tolerance) THEN Return(nxi) ELSE Continue
              ELSE /\ UNCHANGED <<ai, fai, bi, fbi>>
                   /\ Return(nxi)
    /\ UNCHANGED <<quadVars, method, func, a0, b0, a, b, max_it, tolerance, m,
                   xprev, x, fx, warned>>

RegulaFalsiExhaust ==
    /\ pc = "loop" /\ method = "regula_falsi" /\ ~InRange(i, max_it)
    /\ warned' = TRUE
    /\ ReturnLocal(xi)
    /\ UNCHANGED <<quadVars, method, func, a0, b0, a, b, max_it, tolerance, i,
                   ai, bi, fai, fbi, xi, m, xprev, x, fx, evals>>

\* ---- bisection ----

BisectionCall ==
    /\ pc = "start" /\ method = "bisection"
    /\ evals' = evals + 2
    /\ IF NoBracket(func, a, b)
       THEN Raise("ValueError")
       ELSE pc' = "loop" /\ UNCHANGED <<outcome, result>>
    /\ UNCHANGED <<quadVars, method, func, a0, b0, a, b, max_it, tolerance, i,
                   ai, bi, fai, fbi, xi, m, xprev, x, fx, warned>>

BisectionIter ==
    /\ pc = "loop" /\ method = "bisection" /\ InRange(i, max_it)
    /\ LET nm == RDiv(RAdd(a, b), R(2))
           fm == F(func, nm)
           error == Error(fm)
       IN  /\ m' = nm
           /\ i' = i + 1
           /\ IF ProductNegative(F(func, a), fm)
              THEN /\ b' = nm /\ a' = a
                   /\ evals' = evals + 2
                   /\ IF ToleranceMet(error, tolerance) THEN Return(nm) ELSE Continue
              ELSE IF ProductNegative(fm, F(func, b))
              THEN /\ a' = nm /\ b' = b
                   /\ evals' = evals + 3
                   /\ IF ToleranceMet(error, tolerance) THEN Return(nm) ELSE Continue
              ELSE /\ UNCHANGED <<a, b>>
                   /\ evals' = evals + 3
                   /\ Return(nm)
    /\ UNCHANGED <<quadVars, method, func, a0, b0, max_it, tolerance,
                   ai, bi, fai, fbi, xi, xprev, x, fx, warned>>

BisectionExhaust ==
    /\ pc = "loop" /\ method = "bisection" /\ ~InRange(i, max_it)
    /\ warned' = TRUE
    /\ ReturnLocal(m)
    /\ UNCHANGED <<quadVars, method, func, a0, b0, a, b, max_it, tolerance, i,
                   ai, bi, fai, fbi, xi, m, xprev, x, fx, evals>>

\* ---- secant ----

SecantCall ==
    /\ pc = "start" /\ method = "secant"
    /\ xprev' = a /\ x' = b
    /\ fx' = F(func, b)
    /\ evals' = evals + 1
    /\ pc' = "loop"
    /\ UNCHANGED <<quadVars, method, func, a0, b0, a, b, max_it, tolerance, i,
                   ai, bi, fai, fbi, xi, m, warned, outcome, result>>

SecantIter ==
    /\ pc = "loop" /\ method = "secant" /\ InRange(i, max_it)
    /\ i' = i + 1
    /\ LET den == RSub(fx, F(func, xprev))
       IN  IF den = Zero
           THEN /\ Raise("ZeroDivisionError")
                /\ evals' = evals + 1
                /\ UNCHANGED <<xprev, x, fx>>
           ELSE LET x_new == RSub(x, RDiv(RMul(fx, RSub(x, xprev)), den))
                    nfx == F(func, x_new)
                    error == Error(nfx)
                IN  /\ xprev' = x
                    /\ x' = x_new
                    /\ fx' = nfx
                    /\ evals' = evals + 2
                    /\ IF ToleranceMet(error, tolerance) THEN Return(x_new) ELSE Continue
    /\ UNCHANGED <<quadVars, method, func, a0, b0, a, b, max_it, tolerance,
                   ai, bi, fai, fbi, xi, m, warned>>

SecantExhaust ==
    /\ pc = "loop" /\ method = "secant" /\ ~InRange(i, max_it)
    /\ warned' = TRUE
    /\ ReturnLocal(x)
    /\ UNCHANGED <<quadVars, method, func, a0, b0, a, b, max_it, tolerance, i,
                   ai, bi, fai, fbi, xi, m, xprev, x, fx, evals>>

NextSolve ==
    \/ RegulaFalsiCall
    \/ RegulaFalsiIter
    \/ RegulaFalsiExhaust
    \/ BisectionCall
    \/ BisectionIter
    \/ BisectionExhaust
    \/ SecantCall
    \/ SecantIter
    \/ SecantExhaust

Spec == InitSolve /\ [][NextSolve]_vars

\* ------------------------------------------------------------------------
\* Properties of the root finders
\* ------------------------------------------------------------------------

Bracketing == {"regula_falsi", "bisection"}

Negative(v) == RLt(v, Zero)

Positive(v) == RLt(Zero, v)

OppositeSigns(u, v) == (Negative(u) /\ Positive(v)) \/ (Positive(u) /\ Negative(v))

\* v lies strictly between u and w, whichever of the two is the larger
StrictlyBetween(u, v, w) == (RLt(u, v) /\ RLt(v, w)) \/ (RLt(w, v) /\ RLt(v, u))

\* v lies in the closed interval spanned by u and w
Within(u, v, w) == (RLe(u, v) /\ RLe(v, w)) \/ (RLe(w, v) /\ RLe(v, u))

\* C1: with tolerance >= 0, a value returned without the exhaustion warning
\* has a residual of magnitude at most the tolerance, whether it was returned
\* by the tolerance test or by the 'exact root' else-branch.
C1_NormalReturnWithinTolerance ==
    (outcome = "returned" /\ ~warned /\ RLe(Zero, tolerance))
        => RLe(RAbs(F(func, result)), tolerance)

\* regula_falsi has returned from its else-branch: the estimate became
\* neither endpoint of the bracket.
C1_Witness ==
    /\ method = "regula_falsi" /\ outcome = "returned" /\ ~warned
    /\ RLe(Zero, tolerance)
    /\ result = xi /\ ai # xi /\ bi # xi

\* C2: regula_falsi and bisection raise exactly when func(a) and func(b) are
\* not of strictly opposite signs, and then before any pass of the loop:
\* nothing is returned, no estimate was computed, no warning printed.
C2_NoBracketExactly ==
    (method \in Bracketing /\ pc # "start") =>
        /\ (outcome = "ValueError") <=> ~OppositeSigns(F(func, a0), F(func, b0))
        /\ (outcome = "ValueError") =>
               /\ i = 0 /\ xi = Unbound /\ m = Unbound
               /\ result = Unbound /\ ~warned

\* a zero of func at the first bound was rejected
C2_Witness ==
    /\ method \in Bracketing /\ outcome = "ValueError"
    /\ F(func, a0) = Zero /\ F(func, b0) # Zero

\* C3: a call that passed its precondition, did not divide by zero and did
\* not converge ends with the warning and a numeric estimate.
C3_ExhaustionReturnsEstimate ==
    (/\ pc = "done"
     /\ outcome \notin {"ValueError", "ZeroDivisionError"}
     /\ ~(outcome = "returned" /\ ~warned))
        => (warned /\ outcome = "returned" /\ result # Unbound)

\* C9 as claimed: func is called at most max_it + 2 times in a call.
C9_AtMostCapPlusTwo == evals <= max_it + 2

\* C9, amended: the number of calls of func is bounded per method:
\* regula_falsi max_it + 4, bisection 3 * max_it + 2, secant 2 * max_it + 1.
C9_EvaluationBounds ==
    /\ method = "regula_falsi" => evals <= max_it + 4
    /\ method = "bisection" => evals <= 3 * max_it + 2
    /\ method = "secant" => evals <= 2 * max_it + 1

\* bisection called func three times in every pass it was allowed
C9_Witness ==
    /\ method = "bisection" /\ pc = "done" /\ max_it >= 1
    /\ evals = 3 * max_it + 2

\* The bracket kept by a bracketing method once its precondition passed.
BracketLo == IF method = "regula_falsi" THEN ai ELSE a

BracketHi == IF method = "regula_falsi" THEN bi ELSE b

Estimate == IF method = "regula_falsi" THEN xi ELSE m

BracketInv ==
    (method \in Bracketing /\ pc # "start" /\ outcome # "ValueError") =>
        /\ Negative(RMul(F(func, BracketLo), F(func, BracketHi)))
        /\ Within(a0, BracketLo, b0) /\ Within(a0, BracketHi, b0)
        /\ method = "regula_falsi" =>
               (fai = F(func, ai) /\ fbi = F(func, bi))

\* A pass of the loop after which the loop goes on.
BracketStep ==
    (method \in Bracketing /\ pc = "loop" /\ pc' = "loop") =>
        /\ StrictlyBetween(BracketLo, Estimate', BracketHi)
        /\ \/ /\ BracketLo' = Estimate' /\ BracketHi' = BracketHi
              /\ Positive(RMul(F(func, Estimate'), F(func, BracketLo)))
           \/ /\ BracketHi' = Estimate' /\ BracketLo' = BracketLo
              /\ Positive(RMul(F(func, Estimate'), F(func, BracketHi)))

\* C10: the bracket of regula_falsi and bisection keeps the sign change and
\* stays inside the original bounds, regula_falsi's cached values are those
\* of func at its endpoints, and every pass that does not return replaces
\* exactly the endpoint whose value has the sign of the new estimate's, the
\* estimate lying strictly between the endpoints.
C10_BracketMaintained == []BracketInv /\ [][BracketStep]_vars

\* two passes of regula_falsi are complete and the loop goes on
C10_Witness == method = "regula_falsi" /\ pc = "loop" /\ i >= 2

\* ------------------------------------------------------------------------
\* Properties of the quadrature rules
\* ------------------------------------------------------------------------

Called == rule # "none"

\* number of subintervals
NSub == Len(qx) - 1

Ascending == \A k \in 1..NSub : qx[k] < qx[k + 1]

Uniform == \A k \in 1..NSub : qx[k + 1] - qx[k] = qx[2] - qx[1]

ConstantY == \A k \in 1..Len(qy) : qy[k] = qy[1]

IncreasingY == \A k \in 1..(Len(qy) - 1) : qy[k] <= qy[k + 1]

\* c * (x[last] - x[first]) for the constant series y = c
ConstantIntegral == R(qy[1] * (qx[Len(qx)] - qx[1]))

\* the signed area of the trapezoid over the k-th subinterval
TrapezoidArea(k) == Norm((qx[k + 1] - qx[k]) * (qy[k] + qy[k + 1]), 2)

RECURSIVE SumAreas(_, _)
\* the sum of the first k trapezoid areas of the given sign (1 or -1)
SumAreas(k, sign) ==
    IF k = 0 THEN Zero
    ELSE IF sign * TrapezoidArea(k)[1] > 0
         THEN RAdd(SumAreas(k - 1, sign), TrapezoidArea(k))
         ELSE SumAreas(k - 1, sign)

\* C4: the input check of every rule raises the shape error when x or y (or
\* both) is not one-dimensional and the length error when both are
\* one-dimensional and differ in length; no area is returned then.
C4_InputCheckRejects ==
    Called =>
        /\ (qxd # 1 \/ qyd # 1) => qout.kind = "ShapeError"
        /\ (qxd = 1 /\ qyd = 1 /\ Len(qx) # Len(qy)) =>
               qout.kind = "LengthMismatchError"

\* C5: on a series of at least 4 points autosimpson returns a value, never
\* the partition error: simpson13 of the series when n is even, simpson38 of
\* it when n is odd and divisible by 3, else simpson13 of the first len-3
\* points plus simpson38 of the last 4, the head having an even number of
\* subintervals and sharing exactly its last point with the tail.
C5_AutoSimpsonDispatch ==
    (rule = "autosimpson" /\ Len(qx) >= 4) =>
        /\ qout.kind = "ok"
        /\ IF NSub % 2 = 0 THEN qout = simpson13(qxd, qyd, qx, qy)
           ELSE IF NSub % 3 = 0 THEN qout = simpson38(qxd, qyd, qx, qy)
           ELSE LET cut == Len(qx) - 3
                    head == simpson13(qxd, qyd, SubSeq(qx, 1, cut), SubSeq(qy, 1, cut))
                    tail == simpson38(qxd, qyd, SubSeq(qx, cut, Len(qx)),
                                      SubSeq(qy, cut, Len(qy)))
                IN  /\ (cut - 1) % 2 = 0
                    /\ head.kind = "ok" /\ tail.kind = "ok"
                    /\ qout.val = RAdd(head.val, tail.val)

\* autosimpson took its else-branch: 5 subintervals
C5_Witness ==
    /\ rule = "autosimpson" /\ NSub = 5 /\ qout.kind = "ok" /\ ~ConstantY

\* The rules that accept the series: simpson13 wants n even, simpson38 wants
\* n divisible by 3.
Accepts(r) ==
    /\ r = "simpson13" => NSub % 2 = 0
    /\ r = "simpson38" => NSub % 3 = 0

\* the value of the call: the sum of the pair for trapezoidal_upper_lower
Value == IF rule = "trapezoidal_upper_lower" THEN RAdd(qout.val, qout.val2)
         ELSE qout.val

\* C6 as claimed: on a constant series y = c of any length >= 2 every rule
\* that accepts the series, autosimpson in each branch included, returns
\* exactly c * (x[last] - x[first]).
C6_ExactOnConstants ==
    (Called /\ ConstantY /\ Accepts(rule)) =>
        (qout.kind = "ok" /\ Value = ConstantIntegral)

\* C6, amended: the same, autosimpson being called with at least 3 points.
C6_ExactOnConstantsFrom3 ==
    (Called /\ ConstantY /\ Accepts(rule)
     /\ (rule = "autosimpson" => Len(qx) >= 3)) =>
        (qout.kind = "ok" /\ Value = ConstantIntegral)

\* autosimpson's else-branch on a constant series of uneven spacing
C6_Witness ==
    /\ rule = "autosimpson" /\ NSub = 5 /\ ConstantY /\ ~Uniform
    /\ qy[1] # 0 /\ qout.kind = "ok"

\* lriemann <= trapezoidal <= rriemann on the series of the state
RiemannOrder ==
    /\ RLe(lriemann(qxd, qyd, qx, qy).val, trapezoidal(qxd, qyd, qx, qy).val)
    /\ RLe(trapezoidal(qxd, qyd, qx, qy).val, rriemann(qxd, qyd, qx, qy).val)

\* C7 as claimed: y increasing along the sequence, x ascending or descending.
C7_RiemannOrderMonotonicX ==
    (rule \in {"lriemann", "trapezoidal", "rriemann"} /\ IncreasingY)
        => RiemannOrder

\* C7, amended: y increasing along the sequence and x ascending.
C7_RiemannOrderAscendingX ==
    (rule \in {"lriemann", "trapezoidal", "rriemann"} /\ IncreasingY /\ Ascending)
        => RiemannOrder

\* trapezoidal was called on an ascending x with y increasing, not constant
C7_Witness ==
    /\ rule = "trapezoidal" /\ IncreasingY /\ Ascending /\ ~ConstantY
    /\ RLt(lriemann(qxd, qyd, qx, qy).val, qout.val)
    /\ RLt(qout.val, rriemann(qxd, qyd, qx, qy).val)

\* C8: upper + lower = trapezoidal(x, y); upper is the sum of the strictly
\* positive trapezoid areas, lower that of the strictly negative ones, so
\* upper >= 0 >= lower and an area of zero counts in neither.
C8_UpperPlusLower ==
    rule = "trapezoidal_upper_lower" =>
        /\ qout.kind = "ok"
        /\ RAdd(qout.val, qout.val2) = trapezoidal(qxd, qyd, qx, qy).val
        /\ qout.val = SumAreas(NSub, 1)
        /\ qout.val2 = SumAreas(NSub, -1)
        /\ RLe(Zero, qout.val) /\ RLe(qout.val2, Zero)

\* a series with a positive, a negative and a zero trapezoid
C8_Witness ==
    /\ rule = "trapezoidal_upper_lower"
    /\ RLt(Zero, qout.val) /\ RLt(qout.val2, Zero)
    /\ \E k \in 1..NSub : TrapezoidArea(k) = Zero

=============================================================================
